---- MODULE Spec2Model ----
(***************************************************************************)
(* nanomixer, sw/control.py: the Controller that owns the logical mixer    *)
(* state, the translation logical_to_physical of that state into the       *)
(* parameter memory image, and the OneStepMemoizer that caches the biquad  *)
(* coefficient blocks between two translations.                            *)
(*                                                                         *)
(* Python values are tagged tuples: <<"num", n>>, <<"str", s>>,            *)
(* <<"unicode", s>> (a string that came out of json.load), <<"bool", b>>,  *)
(* <<"dict", d>>.  Linear gains and pan factors are fixed-point numbers in *)
(* units of 1/1000.                                                        *)
(***************************************************************************)
EXTENDS Integers, Sequences, FiniteSets, TLC

(* ------------------------------ bounds --------------------------------- *)
\* HARDWARE_PARAMS['num_cores'] ranges over 1..MaxCores
MaxCores == 2
\* number of entries of logical_bus_to_physical_bus_mapping that are kept
NumLogicalBuses == 2
\* number of entries of initial_filter_frequencies that are kept
NumBiquads == 1
\* number of Controller calls in one behaviour
MaxOps == 2

(* ------------------------------ values --------------------------------- *)
Num(n) == <<"num", n>>
Str(s) == <<"str", s>>
Uni(s) == <<"unicode", s>>
Bool(b) == <<"bool", b>>
Dict(d) == <<"dict", d>>

IsNum(v) == v[1] = "num"
IsString(v) == v[1] \in {"str", "unicode"}

\* Python truth value of v, as the `if` of lines 207 and 208 takes it
Truthy(v) ==
    CASE v[1] = "bool" -> v[2]
      [] v[1] = "num" -> v[2] # 0
      [] v[1] \in {"str", "unicode"} -> v[2] # ""
      [] OTHER -> TRUE

\* Fc in units of 1/10 Hz, Q in units of 1/1000
METERING_LPF_PARAMS == [Fc |-> 75, Q |-> 707, Fs |-> 48000]
MIN_FADER == -180

(* ----------------------------- topology -------------------------------- *)
num_channels_per_core == 1

\* the first NumLogicalBuses entries of the mapping: one stereo pair, then mono buses
logical_bus_to_physical_bus_mapping ==
    [l \in 0..(NumLogicalBuses - 1) |-> IF l = 0 THEN <<0, 1>> ELSE <<l + 1>>]

LogicalBuses == DOMAIN logical_bus_to_physical_bus_mapping

SeqRange(s) == {s[i] : i \in DOMAIN s}

PhysicalBuses == UNION {SeqRange(logical_bus_to_physical_bus_mapping[l]) : l \in LogicalBuses}

invert_mapping(mapping, n) ==
    [p \in 0..(n - 1) |->
        IF \E l \in DOMAIN mapping : p \in SeqRange(mapping[l])
        THEN CHOOSE l \in DOMAIN mapping :
                 /\ p \in SeqRange(mapping[l])
                 /\ \A m \in DOMAIN mapping : p \in SeqRange(mapping[m]) => m <= l
        ELSE -1]

num_physical_buses == Cardinality(PhysicalBuses)

logical_bus_for_physical_bus ==
    invert_mapping(logical_bus_to_physical_bus_mapping, num_physical_buses)

metadata(cores) ==
    [num_busses |-> NumLogicalBuses,
     num_channels |-> cores * num_channels_per_core,
     num_biquads_per_channel |-> NumBiquads,
     num_biquads_per_bus |-> NumBiquads]

initial_filter_frequencies ==
    [f \in 0..(NumBiquads - 1) |->
        CASE f = 0 -> 250 [] f = 1 -> 500 [] f = 2 -> 1000 [] f = 3 -> 6000 [] OTHER -> 12000]

solo_bus_index == NumLogicalBuses - 1

(* ------------------------------- keys ---------------------------------- *)
\* state_names: the five key shapes, and the 'metadata' key
BusKey(bus, param) == <<"bus", bus, param>>
ChannelKey(channel, param) == <<"channel", channel, param>>
FaderKey(bus, channel, param) == <<"fader", bus, channel, param>>
ChannelFilterKey(channel, filt, param) == <<"channel_filter", channel, filt, param>>
BusFilterKey(bus, filt, param) == <<"bus_filter", bus, filt, param>>
MetadataKey == <<"metadata">>

FilterParams == {"type", "freq", "gain", "q"}

InitialFilterType(filt) ==
    IF filt = 0 THEN "lowshelf"
    ELSE IF filt = NumBiquads - 1 THEN "highshelf" ELSE "peaking"

InitialFilterValue(filt, param) ==
    CASE param = "type" -> Str(InitialFilterType(filt))
      [] param = "freq" -> Num(initial_filter_frequencies[filt])
      [] param = "gain" -> Num(0)
      [] OTHER -> Num(707)

InitialBusName(bus) ==
    IF bus = 0 THEN Str("Master")
    ELSE IF bus = solo_bus_index THEN Str("Solo") ELSE <<"str", "Aux", bus>>

InitialKeys(md) ==
    LET B == 0..(md.num_busses - 1)
        C == 0..(md.num_channels - 1)
    IN  {BusKey(b, p) : b \in B, p \in {"name", "lvl", "pan"}}
        \cup {FaderKey(b, c, p) : b \in B, c \in C, p \in {"lvl", "pan"}}
        \cup {BusFilterKey(b, f, p) : b \in B, f \in 0..(md.num_biquads_per_bus - 1),
                                      p \in FilterParams}
        \cup {ChannelKey(c, p) : c \in C, p \in {"name", "mute", "pfl"}}
        \cup {ChannelFilterKey(c, f, p) : c \in C, f \in 0..(md.num_biquads_per_channel - 1),
                                          p \in FilterParams}
        \cup {MetadataKey}

InitialValue(md, k) ==
    CASE k[1] = "metadata" -> Dict(md)
      [] k[1] = "bus" ->
            (CASE k[3] = "name" -> InitialBusName(k[2])
               [] OTHER -> Num(0))
      [] k[1] = "fader" -> (IF k[4] = "lvl" THEN Num(MIN_FADER) ELSE Num(0))
      [] k[1] = "bus_filter" -> InitialFilterValue(k[3], k[4])
      [] k[1] = "channel" ->
            (CASE k[3] = "name" -> <<"str", "Ch", k[2] + 1>>
               [] k[3] = "mute" -> Bool(TRUE)
               [] OTHER -> Bool(FALSE))
      [] OTHER -> InitialFilterValue(k[3], k[4])

get_initial_state(md) == [k \in InitialKeys(md) |-> InitialValue(md, k)]

(* ------------------------- hardware addresses -------------------------- *)
\* dsp_program.mixer: NumBiquads five-word blocks per channel, then per physical
\* bus, then one gain word per (physical bus, channel), then the constants
\* block and the metering filter block.
Channels(cores) == 0..(cores * num_channels_per_core - 1)
MaxChannels == MaxCores * num_channels_per_core

ChannelBiquadAddr(channel, biquad_idx) == 5 * (channel * NumBiquads + biquad_idx)
BusBiquadBase == 5 * MaxChannels * NumBiquads
BusBiquadAddr(physical_bus, biquad_idx) ==
    BusBiquadBase + 5 * (physical_bus * NumBiquads + biquad_idx)
GainBase == BusBiquadBase + 5 * num_physical_buses * NumBiquads
GainAddr(physical_bus, channel) == GainBase + physical_bus * MaxChannels + channel
constants_constants == <<1000, 500>>
constants_base == GainBase + num_physical_buses * MaxChannels
meter_filter_param_base == constants_base + Len(constants_constants)
StateVarFilter_encode_params(p) == <<p.Fc, p.Q>>
MemSize == meter_filter_param_base + Len(StateVarFilter_encode_params(METERING_LPF_PARAMS))
Addrs == 0..(MemSize - 1)

(* --------------------------- filter design ----------------------------- *)
pack_biquad_coeffs(b, a) == <<b[1], b[2], b[3], 0 - a[2], 0 - a[3]>>

\* biquads.filter_types: the supported designs, each an integer stand-in for the
\* cookbook formula with a0 = 2
filter_types ==
    [t \in {"lowshelf", "highshelf", "peaking", "lowpass"} |->
        CASE t = "lowshelf" -> 1 [] t = "highshelf" -> 2 [] t = "peaking" -> 3 [] OTHER -> 4]

FilterDesign(typ, f0, dBgain, q) ==
    LET tc == filter_types[typ]
    IN  <<(<<2 * tc, 2 * f0, 2 * dBgain>>), (<<2, 2 * q, 2 * (tc + f0)>>)>>

normalize(b, a) ==
    <<(<<b[1] \div a[1], b[2] \div a[1], b[3] \div a[1]>>),
      (<<1, a[2] \div a[1], a[3] \div a[1]>>)>>

\* compute_biquad_param_mem(typ, f0=, dBgain=, q=): the packed block, or the
\* exception the design raises
compute_biquad_param_mem(kw) ==
    IF ~(IsString(kw.typ) /\ kw.typ[2] \in DOMAIN filter_types)
    THEN [err |-> "UnsupportedFilterType", val |-> <<>>]
    ELSE IF ~(IsNum(kw.f0) /\ IsNum(kw.dBgain) /\ IsNum(kw.q))
    THEN [err |-> "TypeError", val |-> <<>>]
    ELSE LET d == FilterDesign(kw.typ[2], kw.f0[2], kw.dBgain[2], kw.q[2])
             n == normalize(d[1], d[2])
         IN  [err |-> "", val |-> pack_biquad_coeffs(n[1], n[2])]

(* ---------------------------- OneStepMemoizer -------------------------- *)
\* marshal.dumps(((), kw)): the four keyword arguments with their type tags
marshal_dumps(kw) == <<kw.typ, kw.f0, kw.dBgain, kw.q>>

EmptyDict == [k \in {} |-> 0]

DictSet(d, k, v) == [x \in (DOMAIN d) \cup {k} |-> IF x = k THEN v ELSE d[x]]

\* dict.update
DictUpdate(d, e) == [k \in (DOMAIN d) \cup (DOMAIN e) |-> IF k \in DOMAIN e THEN e[k] ELSE d[k]]

\* a get whose miss path does not store the computed value in cur
MemoGetNoStore(m, kw) ==
    LET key == marshal_dumps(kw)
    IN  IF key \in DOMAIN m.cur
        THEN [cur |-> m.cur, next |-> DictSet(m.next, key, m.cur[key]),
              err |-> "", val |-> m.cur[key], computed |-> FALSE]
        ELSE LET r == compute_biquad_param_mem(kw)
             IN  IF r.err # ""
                 THEN [cur |-> m.cur, next |-> m.next,
                       err |-> r.err, val |-> <<>>, computed |-> TRUE]
                 ELSE [cur |-> m.cur,
                       next |-> DictSet(m.next, key, r.val),
                       err |-> "", val |-> r.val, computed |-> TRUE]

\* OneStepMemoizer.get(compute_biquad_param_mem, **kw) on the memoizer m = [cur, next]
MemoGet(m, kw) ==
    LET key == marshal_dumps(kw)
    IN  IF key \in DOMAIN m.cur
        THEN [cur |-> m.cur, next |-> DictSet(m.next, key, m.cur[key]),
              err |-> "", val |-> m.cur[key], computed |-> FALSE]
        ELSE LET r == compute_biquad_param_mem(kw)
             IN  IF r.err # ""
                 THEN [cur |-> m.cur, next |-> m.next,
                       err |-> r.err, val |-> <<>>, computed |-> TRUE]
                 ELSE [cur |-> DictSet(m.cur, key, r.val),
                       next |-> DictSet(m.next, key, r.val),
                       err |-> "", val |-> r.val, computed |-> TRUE]

\* an advance that keeps the entries of the old generation
MemoAdvanceKeep(m) == [cur |-> DictUpdate(m.cur, m.next), next |-> EmptyDict]

\* OneStepMemoizer.advance()
MemoAdvance(m) == [cur |-> m.next, next |-> EmptyDict]

(* ------------------------- logical_to_physical ------------------------- *)
\* Controller._update_state's set_memory closure: the core is not used
set_memory(mem, core, addr, data) ==
    [a \in DOMAIN mem |->
        IF addr <= a /\ a < addr + Len(data) THEN data[a - addr + 1] ELSE mem[a]]

Write(core, addr, data) == [core |-> core, addr |-> addr, data |-> data]

\* the filter slots in the order the two filter loops visit them
ChannelFilterSteps(cores) ==
    [i \in 1..(Cardinality(Channels(cores)) * NumBiquads) |->
        LET channel == (i - 1) \div NumBiquads
            biquad_idx == (i - 1) % NumBiquads
        IN  [keys |-> [p \in FilterParams |-> ChannelFilterKey(channel, biquad_idx, p)],
             addr |-> ChannelBiquadAddr(channel, biquad_idx)]]

BusFilterSteps ==
    [i \in 1..(num_physical_buses * NumBiquads) |->
        LET physical_bus == (i - 1) \div NumBiquads
            biquad_idx == (i - 1) % NumBiquads
            logical_bus == logical_bus_for_physical_bus[physical_bus]
        IN  [keys |-> [p \in FilterParams |-> BusFilterKey(logical_bus, biquad_idx, p)],
             addr |-> BusBiquadAddr(physical_bus, biquad_idx)]]

\* one iteration of a filter loop: read the four parameters, get the block from
\* the memoizer, write it
FilterWrite(acc, g, addr) ==
    IF g.err # ""
    THEN [acc EXCEPT !.err = g.err, !.computes = @ + 1]
    ELSE [mem |-> set_memory(acc.mem, 0, addr, g.val),
          cur |-> g.cur, next |-> g.next,
          writes |-> Append(acc.writes, Write(0, addr, g.val)),
          computes |-> acc.computes + (IF g.computed THEN 1 ELSE 0),
          err |-> ""]

FilterStep(acc, state, step) ==
    IF \E p \in FilterParams : step.keys[p] \notin DOMAIN state
    THEN [acc EXCEPT !.err = "MissingParameter"]
    ELSE LET kw == [typ |-> state[step.keys["type"]], f0 |-> state[step.keys["freq"]],
                    dBgain |-> state[step.keys["gain"]], q |-> state[step.keys["q"]]]
         IN  CHOOSE a \in {FilterWrite(acc, g, step.addr) :
                              g \in {MemoGet([cur |-> acc.cur, next |-> acc.next], kw)}} : TRUE

RECURSIVE RunFilterSteps(_, _, _, _)
RunFilterSteps(acc, state, steps, i) ==
    IF i > Len(steps) \/ acc.err # "" THEN acc
    ELSE CHOOSE r \in {RunFilterSteps(a, state, steps, i + 1) :
                         a \in {FilterStep(acc, state, steps[i])}} : TRUE

\* 10. ** (level / 20.) in units of 1/1000, for levels that are multiples of 20 dB
Pow10Milli(level) ==
    IF level >= 0 THEN 1000 * 10 ^ (level \div 20) ELSE 1000 \div 10 ^ ((0 - level) \div 20)

\* x ** panning_exponent for x in units of 1/1000, 0 <= x <= 1, with PAN_LAW_DB = 3:
\* 0.5 ** panning_exponent is -3 dB
PanPowMilli(x) ==
    CASE x = 0 -> 0 [] x = 250 -> 501 [] x = 500 -> 708 [] x = 750 -> 866 [] x = 1000 -> 1000

\* the gain cell with the mute test taken before the solo test
GainCellMuteFirst(state, logical_bus, channel) ==
    LET physical_buses == logical_bus_to_physical_bus_mapping[logical_bus]
        busK == BusKey(logical_bus, "lvl")
        pflK == ChannelKey(channel, "pfl")
        muteK == ChannelKey(channel, "mute")
        lvlK == FaderKey(logical_bus, channel, "lvl")
        panK == FaderKey(logical_bus, channel, "pan")
        Fail(e) == [err |-> e, gains |-> <<>>]
        Pan(absLevel) ==
            IF Len(physical_buses) = 1 THEN [err |-> "", gains |-> <<absLevel>>]
            ELSE IF panK \notin DOMAIN state THEN Fail("MissingParameter")
            ELSE IF ~IsNum(state[panK]) THEN Fail("TypeError")
            ELSE [err |-> "",
                  gains |-> <<(absLevel * PanPowMilli(500 - state[panK][2])) \div 1000,
                              (absLevel * PanPowMilli(500 + state[panK][2])) \div 1000>>]
    IN  IF busK \notin DOMAIN state THEN Fail("MissingParameter")
        ELSE IF ~IsNum(state[busK]) THEN Fail("TypeError")
        ELSE IF muteK \notin DOMAIN state THEN Fail("MissingParameter")
        ELSE IF Truthy(state[muteK]) THEN Pan(0)
        ELSE IF logical_bus = solo_bus_index
        THEN (IF pflK \notin DOMAIN state THEN Fail("MissingParameter")
              ELSE Pan(IF Truthy(state[pflK]) THEN 1000 ELSE 0))
        ELSE IF lvlK \notin DOMAIN state THEN Fail("MissingParameter")
        ELSE IF ~IsNum(state[lvlK]) THEN Fail("TypeError")
        ELSE Pan((Pow10Milli(state[lvlK][2]) * Pow10Milli(state[busK][2])) \div 1000)

\* lines 202-222 for one (logical bus, channel): the gains of the physical buses
\* of the logical bus, or the exception raised
GainCell(state, logical_bus, channel) ==
    LET physical_buses == logical_bus_to_physical_bus_mapping[logical_bus]
        busK == BusKey(logical_bus, "lvl")
        pflK == ChannelKey(channel, "pfl")
        muteK == ChannelKey(channel, "mute")
        lvlK == FaderKey(logical_bus, channel, "lvl")
        panK == FaderKey(logical_bus, channel, "pan")
        Fail(e) == [err |-> e, gains |-> <<>>]
        Pan(absLevel) ==
            IF Len(physical_buses) = 1 THEN [err |-> "", gains |-> <<absLevel>>]
            ELSE IF panK \notin DOMAIN state THEN Fail("MissingParameter")
            ELSE IF ~IsNum(state[panK]) THEN Fail("TypeError")
            ELSE [err |-> "",
                  gains |-> <<(absLevel * PanPowMilli(500 - state[panK][2])) \div 1000,
                              (absLevel * PanPowMilli(500 + state[panK][2])) \div 1000>>]
    IN  IF busK \notin DOMAIN state THEN Fail("MissingParameter")
        ELSE IF ~IsNum(state[busK]) THEN Fail("TypeError")
        ELSE IF logical_bus = solo_bus_index
        THEN (IF pflK \notin DOMAIN state THEN Fail("MissingParameter")
              ELSE Pan(IF Truthy(state[pflK]) THEN 1000 ELSE 0))
        ELSE IF muteK \notin DOMAIN state THEN Fail("MissingParameter")
        ELSE IF Truthy(state[muteK]) THEN Pan(0)
        ELSE IF lvlK \notin DOMAIN state THEN Fail("MissingParameter")
        ELSE IF ~IsNum(state[lvlK]) THEN Fail("TypeError")
        ELSE Pan((Pow10Milli(state[lvlK][2]) * Pow10Milli(state[busK][2])) \div 1000)

\* the cells of the gain matrix in the order lines 201-204 visit them
GainCells(cores) == {<<l, c>> : l \in LogicalBuses, c \in Channels(cores)}

CellBefore(x, y) == x[1] < y[1] \/ (x[1] = y[1] /\ x[2] < y[2])

\* lines 198-222: gain_for_physical_bus, or the first exception raised
Downmix(state, cores) ==
    LET bad == {x \in GainCells(cores) : GainCell(state, x[1], x[2]).err # ""}
    IN  IF bad # {}
        THEN LET first == CHOOSE x \in bad : \A y \in bad : y = x \/ CellBefore(x, y)
             IN  [err |-> GainCell(state, first[1], first[2]).err, gain |-> <<>>]
        ELSE [err |-> "",
              gain |-> [x \in (0..(num_physical_buses - 1)) \X Channels(cores) |->
                  LET l == logical_bus_for_physical_bus[x[1]]
                      pb == logical_bus_to_physical_bus_mapping[l]
                      g == GainCell(state, l, x[2]).gains
                  IN  IF pb[1] = x[1] THEN g[1] ELSE g[2]]]

\* lines 224-230: one write per (physical bus, channel)
GainWrites(gain, cores) ==
    LET n == Cardinality(Channels(cores))
    IN  [i \in 1..(num_physical_buses * n) |->
            LET bus == (i - 1) \div n
                channel == (i - 1) % n
            IN  Write(0, GainAddr(bus, channel), <<gain[<<bus, channel>>]>>)]

\* lines 233-238: the constants block, once per core
ConstantsWrites(cores) ==
    [i \in 1..cores |-> Write(i - 1, constants_base, constants_constants)]

\* line 241: the metering filter, after the loop, with the loop's last core
MeterWrites(cores) ==
    <<Write(cores - 1, meter_filter_param_base,
            StateVarFilter_encode_params(METERING_LPF_PARAMS))>>

RECURSIVE ApplyWrites(_, _, _)
ApplyWrites(mem, ws, i) ==
    IF i > Len(ws) THEN mem
    ELSE ApplyWrites(set_memory(mem, ws[i].core, ws[i].addr, ws[i].data), ws, i + 1)

\* logical_to_physical(state, mixer, set_memory, memoizer) on the image mem and
\* the memoizer m: the image, the memoizer, the set_memory calls issued, the
\* number of filter designs computed and the exception raised ("" if none)
DownmixAndConstants(acc, state, cores) ==
    IF acc.err # "" THEN acc
    ELSE CHOOSE r \in {
             IF d.err # "" THEN [acc EXCEPT !.err = d.err]
             ELSE CHOOSE x \in {
                      [acc EXCEPT !.mem = ApplyWrites(acc.mem, tail, 1),
                                  !.writes = acc.writes \o tail] :
                      tail \in {GainWrites(d.gain, cores) \o ConstantsWrites(cores)
                                    \o MeterWrites(cores)}} : TRUE :
             d \in {Downmix(state, cores)}} : TRUE

logical_to_physical(state, cores, mem, m) ==
    CHOOSE r \in {DownmixAndConstants(acc2, state, cores) :
        acc2 \in {RunFilterSteps(acc1, state, BusFilterSteps, 1) :
            acc1 \in {RunFilterSteps(
                [mem |-> mem, cur |-> m.cur, next |-> m.next, writes |-> <<>>,
                 computes |-> 0, err |-> ""],
                state, ChannelFilterSteps(cores), 1)}}} : TRUE

\* Controller._update_state: translate, then advance the memoizer; an exception
\* of the translation leaves the memoizer where the translation left it
AdvanceAfter(r) ==
    IF r.err # "" THEN r
    ELSE [r EXCEPT !.cur = MemoAdvance([cur |-> r.cur, next |-> r.next]).cur,
                   !.next = MemoAdvance([cur |-> r.cur, next |-> r.next]).next]

update_state(state, cores, mem, m) ==
    CHOOSE o \in {AdvanceAfter(r) : r \in {logical_to_physical(state, cores, mem, m)}} : TRUE

(* ------------------------------ Controller ----------------------------- *)
VARIABLES
    num_cores,          \* HARDWARE_PARAMS['num_cores']
    state,              \* Controller.state
    desired_param_mem,  \* io_thread.desired_param_mem
    cur,                \* memoizer.cur
    next,               \* memoizer.next
    writes,             \* the set_memory calls of the last call, in order
    last,               \* the last call: its name, arguments and outcome
    requested,          \* keys a get returned since the last advance
    previous,           \* keys a get returned in the cycle before
    nops                \* calls made so far

vars == <<num_cores, state, desired_param_mem, cur, next, writes, last,
          requested, previous, nops>>

NoCall == [op |-> "none", control |-> <<>>, value |-> <<>>, ret |-> "", computes |-> 0]

Call(op, control, value, ret, computes) ==
    [op |-> op, control |-> control, value |-> value, ret |-> ret, computes |-> computes]

ZeroMem == [a \in Addrs |-> 0]

\* Controller.__init__ up to the snapshot load, with the image still zeroed
Init ==
    /\ num_cores \in 1..MaxCores
    /\ state = get_initial_state(metadata(num_cores))
    /\ desired_param_mem = ZeroMem
    /\ cur = EmptyDict
    /\ next = EmptyDict
    /\ writes = <<>>
    /\ last = NoCall
    /\ requested = {}
    /\ previous = {}
    /\ nops = 0

\* the values a caller passes for a control, by the control's parameter
UpdateValues(control) ==
    LET param == control[Len(control)]
    IN  CASE param = "name" -> {Str("X")}
          [] param = "lvl" /\ control[1] = "bus" -> {Num(-20), Str("loud")}
          [] param = "lvl" -> {Num(0)}
          [] param = "pan" -> {Num(500)}
          [] param \in {"mute", "pfl"} -> {Bool(TRUE), Bool(FALSE)}
          [] param = "type" -> {Str("peaking"), Str("bogus")}
          [] param = "freq" -> {Num(1000)}
          [] param = "gain" -> {Num(6)}
          [] param = "q" -> {Num(1000)}
          [] OTHER -> {Dict(metadata(MaxCores + 1))}

\* controls that get_initial_state never creates
UnknownControls == {BusKey(NumLogicalBuses, "lvl"), ChannelKey(0, "solo")}

\* the controls a caller sends: every bus, the last channel, the first filter
\* slot, the metadata, and controls the model may not have
UpdateControls(cores) ==
    LET c == cores * num_channels_per_core - 1
    IN  {BusKey(b, "lvl") : b \in LogicalBuses}
        \cup {BusKey(0, "name")}
        \cup {FaderKey(b, c, "lvl") : b \in LogicalBuses}
        \cup {FaderKey(0, c, "pan")}
        \cup {ChannelKey(c, p) : p \in {"mute", "pfl"}}
        \cup {ChannelFilterKey(c, 0, p) : p \in {"type", "freq"}}
        \cup {BusFilterKey(0, 0, "type")}
        \cup {MetadataKey}
        \cup UnknownControls

\* the state a call leaves: everything a handler assigns
Outcome(st, r, ret) ==
    [state |-> st, mem |-> r.mem, cur |-> r.cur, next |-> r.next, writes |-> r.writes,
     computes |-> r.computes, ret |-> ret]

Untouched(ret) ==
    [state |-> state, mem |-> desired_param_mem, cur |-> cur, next |-> next,
     writes |-> <<>>, computes |-> 0, ret |-> ret]

Commit(op, control, value, o) ==
    /\ state' = o.state
    /\ desired_param_mem' = o.mem
    /\ cur' = o.cur
    /\ next' = o.next
    /\ writes' = o.writes
    /\ last' = Call(op, control, value, o.ret, o.computes)
    /\ nops' = nops + 1
    /\ UNCHANGED <<num_cores, requested, previous>>

\* an apply_update that translates the model as it was before the assignment
apply_update_stale(control, value) ==
    IF control \notin DOMAIN state THEN Untouched("False")
    ELSE LET st == [state EXCEPT ![control] = value]
         IN  CHOOSE o \in {Outcome(st, r, IF r.err = "" THEN "True" ELSE r.err) :
                 r \in {update_state(state, num_cores, desired_param_mem,
                                     [cur |-> cur, next |-> next])}} : TRUE

\* an apply_update without the membership test
apply_update_unchecked(control, value) ==
    LET st == DictSet(state, control, value)
    IN  CHOOSE o \in {Outcome(st, r, IF r.err = "" THEN "True" ELSE r.err) :
            r \in {update_state(st, num_cores, desired_param_mem,
                                [cur |-> cur, next |-> next])}} : TRUE

\* Controller.apply_update(control, value)
apply_update(control, value) ==
    IF control \notin DOMAIN state THEN Untouched("False")
    ELSE LET st == [state EXCEPT ![control] = value]
         IN  CHOOSE o \in {Outcome(st, r, IF r.err = "" THEN "True" ELSE r.err) :
                 r \in {update_state(st, num_cores, desired_param_mem,
                                     [cur |-> cur, next |-> next])}} : TRUE

ApplyUpdate(control, value) ==
    /\ nops < MaxOps
    /\ \E o \in {apply_update(control, value)} : Commit("apply_update", control, value, o)

\* Controller.dump_state_to_mixer()
dump_state_to_mixer ==
    CHOOSE o \in {Outcome(state, r, IF r.err = "" THEN "None" ELSE r.err) :
        r \in {update_state(state, num_cores, desired_param_mem,
                            [cur |-> cur, next |-> next])}} : TRUE

DumpStateToMixer ==
    /\ nops < MaxOps
    /\ \E o \in {dump_state_to_mixer} : Commit("dump_state_to_mixer", <<>>, <<>>, o)

\* what json.load returns for the snapshot files a directory may hold; a
\* string of a snapshot is a unicode string
SnapshotFiles(cores) ==
    LET md == MetadataKey :> Dict(metadata(cores))
        other == MetadataKey :> Dict(metadata(cores + 1))
        unmute == ChannelKey(0, "mute") :> Bool(FALSE)
        body == unmute @@ (FaderKey(0, 0, "lvl") :> Num(0))
                       @@ (ChannelFilterKey(0, 0, "type") :> Uni("peaking"))
    IN  {[exists |-> FALSE, data |-> EmptyDict],
         [exists |-> TRUE, data |-> md @@ body],
         [exists |-> TRUE, data |-> md @@ (BusKey(NumLogicalBuses, "lvl") :> Num(0))],
         [exists |-> TRUE, data |-> other @@ body],
         [exists |-> TRUE, data |-> unmute]}

\* a load_snapshot that merges the file before it compares the metadata
load_snapshot_merge_first(snap) ==
    IF ~snap.exists THEN Untouched("IOError")
    ELSE IF MetadataKey \notin DOMAIN snap.data THEN Untouched("KeyError")
    ELSE IF snap.data[MetadataKey] # state[MetadataKey]
    THEN [Untouched("InvalidSnapshot") EXCEPT !.state = DictUpdate(state, snap.data)]
    ELSE [Untouched("None") EXCEPT !.state = DictUpdate(state, snap.data)]

\* Controller.load_snapshot(name) where the file holds snap
load_snapshot(snap) ==
    IF ~snap.exists THEN Untouched("IOError")
    ELSE IF MetadataKey \notin DOMAIN snap.data THEN Untouched("KeyError")
    ELSE IF snap.data[MetadataKey] # state[MetadataKey] THEN Untouched("InvalidSnapshot")
    ELSE [Untouched("None") EXCEPT !.state = DictUpdate(state, snap.data)]

LoadSnapshot(snap) ==
    /\ nops < MaxOps
    /\ \E o \in {load_snapshot(snap)} : Commit("load_snapshot", <<>>, Dict(snap.data), o)

Next ==
    \/ \E control \in UpdateControls(num_cores) :
           \E value \in UpdateValues(control) : ApplyUpdate(control, value)
    \/ DumpStateToMixer
    \/ \E snap \in SnapshotFiles(num_cores) : LoadSnapshot(snap)

Spec == Init /\ [][Next]_vars

(* ----------------------- the memoizer on its own ------------------------ *)
\* the keyword arguments a caller of get passes: three designs and one
\* unsupported type
MemoArgs ==
    {[typ |-> Str(t), f0 |-> Num(f), dBgain |-> Num(0), q |-> Num(707)] :
        t \in {"peaking", "bogus"}, f \in {250, 1000}}
    \cup {[typ |-> Str("lowshelf"), f0 |-> Num(250), dBgain |-> Num(0), q |-> Num(707)]}

InitMemo ==
    /\ num_cores = 1
    /\ state = EmptyDict
    /\ desired_param_mem = ZeroMem
    /\ cur = EmptyDict
    /\ next = EmptyDict
    /\ writes = <<>>
    /\ last = NoCall
    /\ requested = {}
    /\ previous = {}
    /\ nops = 0

\* memoizer.get(compute_biquad_param_mem, **kw)
Get(kw) ==
    \E g \in {MemoGet([cur |-> cur, next |-> next], kw)} :
        /\ cur' = g.cur
        /\ next' = g.next
        /\ last' = Call("get", marshal_dumps(kw), g.val,
                        IF g.err = "" THEN "value" ELSE g.err,
                        IF g.computed THEN 1 ELSE 0)
        /\ requested' = IF g.err = "" THEN requested \cup {marshal_dumps(kw)} ELSE requested
        /\ UNCHANGED <<num_cores, state, desired_param_mem, writes, previous, nops>>

\* memoizer.advance()
Advance ==
    \E m \in {MemoAdvance([cur |-> cur, next |-> next])} :
        /\ cur' = m.cur
        /\ next' = m.next
        /\ last' = Call("advance", <<>>, <<>>, "None", 0)
        /\ previous' = requested
        /\ requested' = {}
        /\ UNCHANGED <<num_cores, state, desired_param_mem, writes, nops>>

NextMemo == (\E kw \in MemoArgs : Get(kw)) \/ Advance

SpecMemo == InitMemo /\ [][NextMemo]_vars

(* ------------ logical_to_physical on a model that lacks a key ----------- *)
DictRemove(d, k) == [x \in (DOMAIN d) \ {k} |-> d[x]]

\* the model a caller hands to the translation: the initial one, with one of
\* its keys absent
InitTranslate ==
    /\ num_cores \in 1..MaxCores
    /\ \E k \in InitialKeys(metadata(num_cores)) :
           state = DictRemove(get_initial_state(metadata(num_cores)), k)
    /\ desired_param_mem = ZeroMem
    /\ cur = EmptyDict
    /\ next = EmptyDict
    /\ writes = <<>>
    /\ last = NoCall
    /\ requested = {}
    /\ previous = {}
    /\ nops = 0

NextTranslate == DumpStateToMixer

SpecTranslate == InitTranslate /\ [][NextTranslate]_vars

(* ------------------------------- claims --------------------------------- *)
\* the last call ran a translation to its end
Translated(l) ==
    \/ l.op = "apply_update" /\ l.ret = "True"
    \/ l.op = "dump_state_to_mixer" /\ l.ret = "None"

FilterKw(st, keys) ==
    [typ |-> st[keys["type"]], f0 |-> st[keys["freq"]],
     dBgain |-> st[keys["gain"]], q |-> st[keys["q"]]]

Block(mem, addr) == [i \in 1..5 |-> mem[addr + i - 1]]

\* every coefficient block and every gain word of mem is the one the
\* translation derives from the model st
ImageMatchesModel(st, mem, cores) ==
    /\ \A i \in DOMAIN ChannelFilterSteps(cores) :
           LET step == ChannelFilterSteps(cores)[i]
           IN  /\ compute_biquad_param_mem(FilterKw(st, step.keys)).err = ""
               /\ Block(mem, step.addr) =
                      compute_biquad_param_mem(FilterKw(st, step.keys)).val
    /\ \A i \in DOMAIN BusFilterSteps :
           LET step == BusFilterSteps[i]
           IN  /\ compute_biquad_param_mem(FilterKw(st, step.keys)).err = ""
               /\ Block(mem, step.addr) =
                      compute_biquad_param_mem(FilterKw(st, step.keys)).val
    /\ Downmix(st, cores).err = ""
    /\ \A pb \in 0..(num_physical_buses - 1) : \A c \in Channels(cores) :
           mem[GainAddr(pb, c)] = Downmix(st, cores).gain[<<pb, c>>]

\* C1: a step that is an apply_update returning true leaves value at control
\* and every other key as it was, a step that is a dump_state_to_mixer that
\* returns leaves the model as it was, and after either step every coefficient
\* block and every gain word of the image is the one derived from the model.
C1_ImageFollowsModel ==
    [][/\ (last'.op = "apply_update" /\ last'.ret = "True") =>
              /\ last'.control \in DOMAIN state
              /\ state' = [state EXCEPT ![last'.control] = last'.value]
       /\ (last'.op = "dump_state_to_mixer" /\ last'.ret = "None") => state' = state
       /\ Translated(last') => ImageMatchesModel(state', desired_param_mem', num_cores)
      ]_vars

\* an apply_update returned true and left a non-zero gain of the stereo bus in
\* the image
C1_Witness ==
    /\ last.op = "apply_update"
    /\ last.ret = "True"
    /\ state[last.control] = last.value
    /\ \E c \in Channels(num_cores) : desired_param_mem[GainAddr(0, c)] > 0

\* C2: a step that is an apply_update with a control that is not a key of the
\* model returns false, leaves the model, the image, cur and next as they were
\* and issues no set_memory call and no filter design.
C2_UnknownControlNoEffect ==
    [][(last'.op = "apply_update" /\ last'.control \notin DOMAIN state) =>
           /\ last'.ret = "False"
           /\ state' = state
           /\ desired_param_mem' = desired_param_mem
           /\ cur' = cur
           /\ next' = next
           /\ writes' = <<>>
           /\ last'.computes = 0
      ]_vars

\* an unknown control was refused when the cache and the image were not empty
C2_Witness ==
    /\ last.op = "apply_update"
    /\ last.ret = "False"
    /\ DOMAIN cur # {}
    /\ desired_param_mem # ZeroMem

\* C3: right after an advance, the keys of cur are exactly the keys a get
\* returned during the cycle that ended, and next is empty.
C3_AdvanceKeepsRequested ==
    last.op = "advance" => (DOMAIN cur = previous /\ DOMAIN next = {})

\* an advance ended a cycle in which two of the keys were requested
C3_Witness ==
    /\ last.op = "advance"
    /\ Cardinality(previous) = 2
    /\ DOMAIN cur = previous

\* C4: a get computes exactly when its key was returned neither earlier in the
\* cycle nor in the cycle before, and a get that returns returns the block
\* compute_biquad_param_mem produces for its arguments.
C4_ComputeOnlyOnMiss ==
    [][last'.op = "get" =>
           /\ (last'.computes = 1) <=>
                  (last'.control \notin requested /\ last'.control \notin previous)
           /\ last'.ret = "value" =>
                  \A kw \in MemoArgs :
                      marshal_dumps(kw) = last'.control =>
                          last'.value = compute_biquad_param_mem(kw).val
      ]_vars

\* the first get of a cycle for a key of the cycle before is a hit
C4_Witness ==
    /\ last.op = "get"
    /\ last.computes = 0
    /\ last.control \in previous
    /\ requested = {last.control}

\* C5: the model has a 'metadata' entry, equal to the metadata it was
\* initialised with.
C5_MetadataKept ==
    /\ MetadataKey \in DOMAIN state
    /\ state[MetadataKey] = Dict(metadata(num_cores))

\* C6: a translation that aborts on an absent key leaves the image word for
\* word as it was before the translation started.
C6_AbortLeavesImage ==
    [][last'.ret = "MissingParameter" => desired_param_mem' = desired_param_mem]_vars

\* C7: an apply_update that does not return true leaves every key of the model
\* with the value it had before the call.
C7_FailedUpdateNoEffect ==
    [][(last'.op = "apply_update" /\ last'.ret # "True") => state' = state]_vars

\* C8: after a completed translation, the gain word of a channel on the
\* physical buses of the solo bus is 1 if its pfl flag is set and 0 if not,
\* and the gain word of a muted channel on every physical bus of every other
\* logical bus is 0.
C8_SoloMutePrecedence ==
    Translated(last) =>
        \A c \in Channels(num_cores) : \A l \in LogicalBuses :
            \A i \in DOMAIN logical_bus_to_physical_bus_mapping[l] :
                LET word == desired_param_mem[
                                GainAddr(logical_bus_to_physical_bus_mapping[l][i], c)]
                IN  /\ l = solo_bus_index =>
                           word = (IF Truthy(state[ChannelKey(c, "pfl")]) THEN 1000 ELSE 0)
                    /\ (l # solo_bus_index /\ Truthy(state[ChannelKey(c, "mute")])) =>
                           word = 0

\* a translation completed for a channel that is muted and soloed and whose
\* fader on the stereo bus is up
C8_Witness ==
    /\ Translated(last)
    /\ \E c \in Channels(num_cores) :
           /\ state[ChannelKey(c, "pfl")] = Bool(TRUE)
           /\ state[ChannelKey(c, "mute")] = Bool(TRUE)
           /\ state[FaderKey(0, c, "lvl")] = Num(0)
           /\ desired_param_mem[GainAddr(logical_bus_to_physical_bus_mapping[solo_bus_index][1],
                                         c)] = 1000

SnapshotOf(l) == l.value[2]

\* C9: a step that is a load_snapshot of a file whose metadata differs from the
\* model's raises InvalidSnapshot and leaves the model as it was, and a
\* load_snapshot changes the model only if the file's metadata equals the
\* model's.
C9_MismatchRejected ==
    [][last'.op = "load_snapshot" =>
           /\ (/\ MetadataKey \in DOMAIN SnapshotOf(last')
               /\ SnapshotOf(last')[MetadataKey] # state[MetadataKey]) =>
                  (last'.ret = "InvalidSnapshot" /\ state' = state)
           /\ state' # state =>
                  /\ MetadataKey \in DOMAIN SnapshotOf(last')
                  /\ SnapshotOf(last')[MetadataKey] = state[MetadataKey]
      ]_vars

\* a snapshot that would have changed a key of the model was rejected
C9_Witness ==
    /\ last.op = "load_snapshot"
    /\ last.ret = "InvalidSnapshot"
    /\ \E k \in (DOMAIN SnapshotOf(last)) \cap (DOMAIN state) :
           k # MetadataKey /\ SnapshotOf(last)[k] # state[k]

\* C10: a completed translation has issued, for every core, a write of the
\* constants block at the constants base with that core and a write of the
\* metering filter block at the metering filter address with that core.
C10_EveryCoreWritten ==
    Translated(last) =>
        \A core \in 0..(num_cores - 1) :
            /\ \E i \in DOMAIN writes :
                   writes[i] = Write(core, constants_base, constants_constants)
            /\ \E i \in DOMAIN writes :
                   writes[i] = Write(core, meter_filter_param_base,
                                     StateVarFilter_encode_params(METERING_LPF_PARAMS))

====
